---------------------------- MODULE Spec2Model ----------------------------
(***************************************************************************)
(* A model of satkit's orbit propagation core: the RKF45 Butcher tableau,  *)
(* the embedded Runge-Kutta stepper and adaptive step-size controller,     *)
(* SatState (time, position/velocity, optional covariance) with its        *)
(* covariance propagation, and the Python view of a propagation result.    *)
(*                                                                         *)
(* Real numbers are exact rationals <<n, d>> (d > 0, lowest terms); the    *)
(* entries of state vectors and matrices are integers.  Rust's 0-based     *)
(* indices are kept: matrices are functions over 0..5 (rows) and 0..6      *)
(* (columns).                                                              *)
(***************************************************************************)
EXTENDS Integers, Sequences, FiniteSets, TLC

(***************************************************************************)
(* Exact rational arithmetic.  The operators bind their operands once, as  *)
(* values (x \in {e}), before they use them.                               *)
(***************************************************************************)
Abs(x) == IF x < 0 THEN -x ELSE x

RECURSIVE Gcd(_, _)
Gcd(a, b) == IF b = 0 THEN a ELSE CHOOSE g \in {Gcd(b, r) : r \in {a % b}} : TRUE

Sign(x) == IF x < 0 THEN -1 ELSE IF x = 0 THEN 0 ELSE 1

\* n/d in lowest terms with a positive denominator (d # 0)
Rat(n, d) ==
    CHOOSE q \in {LET g == Gcd(Abs(a), Abs(b))
                       s == IF b < 0 THEN -1 ELSE 1
                   IN  <<(s * a) \div g, (s * b) \div g>> : a \in {n}, b \in {d}} : TRUE

RInt(n) == <<n, 1>>

RZero == RInt(0)

ROne == RInt(1)

RNeg(x) == <<-x[1], x[2]>>

RAdd(x, y) ==
    CHOOSE q \in {LET g == Gcd(a[2], b[2])
                       l == (a[2] \div g) * b[2]
                   IN  Rat(a[1] * (l \div a[2]) + b[1] * (l \div b[2]), l) :
                     a \in {x}, b \in {y}} : TRUE

RSub(x, y) == RAdd(x, RNeg(y))

RMul(x, y) ==
    CHOOSE q \in {LET g1 == Gcd(Abs(a[1]), b[2])
                       g2 == Gcd(Abs(b[1]), a[2])
                   IN  IF a[1] = 0 \/ b[1] = 0 THEN RZero
                       ELSE <<(a[1] \div g1) * (b[1] \div g2),
                              (a[2] \div g2) * (b[2] \div g1)>> :
                     a \in {x}, b \in {y}} : TRUE

\* 1/x (x # 0)
RInv(x) == IF x[1] < 0 THEN <<-x[2], -x[1]>> ELSE <<x[2], x[1]>>

RDiv(x, y) == RMul(x, RInv(y))

RLess(x, y) == RSub(x, y)[1] < 0

RLeq(x, y) == RSub(x, y)[1] <= 0

RAbs(x) == <<Abs(x[1]), x[2]>>

RMin(x, y) == CHOOSE q \in {IF RLess(b, a) THEN b ELSE a : a \in {x}, b \in {y}} : TRUE

RMax(x, y) == CHOOSE q \in {IF RLess(a, b) THEN b ELSE a : a \in {x}, b \in {y}} : TRUE

RECURSIVE RPow(_, _)
RPow(x, k) ==
    IF k = 0 THEN ROne
    ELSE CHOOSE r \in {RMul(x, p) : p \in {RPow(x, k - 1)}} : TRUE

\* the sum of the rationals of a sequence
RECURSIVE RSumTo(_, _)
RSumTo(v, n) == IF n = 0 THEN RZero ELSE RAdd(RSumTo(v, n - 1), v[n])

RSum(v) == RSumTo(v, Len(v))

(***************************************************************************)
(* The RKF45 tableau (impl RKAdaptive<6, 1> for RKF45).                    *)
(***************************************************************************)
\* number of stages: the N of RKAdaptive<N, NI>
NStages == 6

Stages == 0 .. (NStages - 1)

A_typo ==
    << <<RZero, RZero, RZero, RZero, RZero, RZero>>,
       <<Rat(1, 4), RZero, RZero, RZero, RZero, RZero>>,
       <<Rat(3, 32), Rat(9, 32), RZero, RZero, RZero, RZero>>,
       <<Rat(1932, 2197), Rat(-7200, 2197), Rat(7296, 2197), RZero, RZero, RZero>>,
       <<Rat(439, 216), RInt(-8), Rat(3680, 513), Rat(-845, 4104), RZero, RZero>>,
       <<Rat(-8, 27), RInt(2), Rat(-3544, 2565), Rat(1859, 4140), Rat(-11, 40), RZero>> >>

A ==
    << <<RZero, RZero, RZero, RZero, RZero, RZero>>,
       <<Rat(1, 4), RZero, RZero, RZero, RZero, RZero>>,
       <<Rat(3, 32), Rat(9, 32), RZero, RZero, RZero, RZero>>,
       <<Rat(1932, 2197), Rat(-7200, 2197), Rat(7296, 2197), RZero, RZero, RZero>>,
       <<Rat(439, 216), RInt(-8), Rat(3680, 513), Rat(-845, 4104), RZero, RZero>>,
       <<Rat(-8, 27), RInt(2), Rat(-3544, 2565), Rat(1859, 4104), Rat(-11, 40), RZero>> >>

\* A[i][j] with the source's 0-based indices
Aij(i, j) == A[i + 1][j + 1]

B_typo ==
    <<Rat(16, 135), RZero, Rat(6565, 12825), Rat(28561, 56430), Rat(-9, 50), Rat(2, 55)>>

B ==
    <<Rat(16, 135), RZero, Rat(6656, 12825), Rat(28561, 56430), Rat(-9, 50), Rat(2, 55)>>

BSTAR ==
    <<Rat(25, 216), RZero, Rat(1408, 2565), Rat(2197, 4104), Rat(-2, 10), RZero>>

\* a vector over the stages: the 6-array whose element ix is F(ix)
StageVec(F(_)) == <<F(0), F(1), F(2), F(3), F(4), F(5)>>

\* element i (0-based) of a vector over the stages
At(v, i) == v[i + 1]

BerrAt(ix) == RSub(At(BSTAR, ix), At(B, ix))

\* berr[ix] = BSTAR[ix] - Self::B[ix]
BERR == StageVec(BerrAt)

C == <<RZero, Rat(1, 4), Rat(3, 8), Rat(12, 13), ROne, Rat(1, 2)>>

ORDER == 4

FSAL == FALSE

(***************************************************************************)
(* Properties of a tableau: explicitness, consistency and the Runge-Kutta  *)
(* order conditions (one per rooted tree) for a weight vector w.           *)
(***************************************************************************)
\* row i of A uses only columns < i
StrictlyLower == \A i \in Stages : \A j \in Stages : j >= i => Aij(i, j) = RZero

RowSum(i) == RSum(A[i + 1])

\* componentwise product
Had(u, v) == StageVec(LAMBDA i : RMul(At(u, i), At(v, i)))

\* sum_i w[i] * v[i]
Dot(w, v) == RSum(Had(w, v))

\* (A v)[i] = sum_j A[i][j] * v[j]
AMul(v) == StageVec(LAMBDA i : Dot(A[i + 1], v))

Ones == StageVec(LAMBDA i : ROne)

\* the elementary weights of the rooted trees with up to five vertices
C2 == Had(C, C)

C3 == Had(C2, C)

C4 == Had(C3, C)

AC == AMul(C)

AC2 == AMul(C2)

AC3 == AMul(C3)

AAC == AMul(AC)

AAC2 == AMul(AC2)

AAAC == AMul(AAC)

CAC == Had(C, AC)

ACAC == AMul(CAC)

Order1(w) == Dot(w, Ones) = ROne

Order2(w) == Dot(w, C) = Rat(1, 2)

Order3(w) ==
    /\ Dot(w, C2) = Rat(1, 3)
    /\ Dot(w, AC) = Rat(1, 6)

Order4(w) ==
    /\ Dot(w, C3) = Rat(1, 4)
    /\ Dot(w, CAC) = Rat(1, 8)
    /\ Dot(w, AC2) = Rat(1, 12)
    /\ Dot(w, AAC) = Rat(1, 24)

Order5(w) ==
    /\ Dot(w, C4) = Rat(1, 5)
    /\ Dot(w, Had(C2, AC)) = Rat(1, 10)
    /\ Dot(w, Had(C, AC2)) = Rat(1, 15)
    /\ Dot(w, Had(C, AAC)) = Rat(1, 30)
    /\ Dot(w, Had(AC, AC)) = Rat(1, 20)
    /\ Dot(w, AC3) = Rat(1, 20)
    /\ Dot(w, ACAC) = Rat(1, 40)
    /\ Dot(w, AAC2) = Rat(1, 60)
    /\ Dot(w, AAAC) = Rat(1, 120)

\* every order condition up to and including order p (p in 1..5)
OrderThrough(w, p) ==
    /\ Order1(w)
    /\ (p >= 2 => Order2(w))
    /\ (p >= 3 => Order3(w))
    /\ (p >= 4 => Order4(w))
    /\ (p >= 5 => Order5(w))

\* the weights the error estimate compares the primary weights with
Embedded == StageVec(LAMBDA i : RAdd(At(B, i), At(BERR, i)))

(***************************************************************************)
(* Integer vectors and matrices.  A matrix is the tuple of its rows; E     *)
(* reads an element by the 0-based (row, column) of the source.            *)
(***************************************************************************)
Vec3(F(_)) == <<F(0), F(1), F(2)>>

Vec6(F(_)) == <<F(0), F(1), F(2), F(3), F(4), F(5)>>

Vec7(F(_)) == <<F(0), F(1), F(2), F(3), F(4), F(5), F(6)>>

Mat33(F(_, _)) == Vec3(LAMBDA i : Vec3(LAMBDA j : F(i, j)))

Mat66(F(_, _)) == Vec6(LAMBDA i : Vec6(LAMBDA j : F(i, j)))

\* na::SMatrix<f64, 6, 7>
Mat67(F(_, _)) == Vec6(LAMBDA i : Vec7(LAMBDA j : F(i, j)))

\* na::SMatrix<f64, 6, 1>
Mat61(F(_)) == Vec6(LAMBDA i : <<F(i)>>)

E(m, i, j) == m[i + 1][j + 1]

NCols(m) == Len(m[1])

RECURSIVE SumTo(_, _)
SumTo(v, n) == IF n = 0 THEN 0 ELSE SumTo(v, n - 1) + v[n]

\* row i of a times column j of b
RowCol(a, b, i, j) == SumTo([k \in 1 .. Len(b) |-> a[i + 1][k] * b[k][j + 1]], Len(b))

Mul33(a, b) == Mat33(LAMBDA i, j : RowCol(a, b, i, j))

Mul66(a, b) == Mat66(LAMBDA i, j : RowCol(a, b, i, j))

Transpose33(a) == Mat33(LAMBDA i, j : E(a, j, i))

Transpose66(a) == Mat66(LAMBDA i, j : E(a, j, i))

Identity3 == Mat33(LAMBDA i, j : IF i = j THEN 1 ELSE 0)

\* na::Matrix6::<f64>::identity()
Identity6 == Mat66(LAMBDA i, j : IF i = j THEN 1 ELSE 0)

Zeros6 == Mat66(LAMBDA i, j : 0)

IsSymmetric(m) == \A i \in 0 .. 5 : \A j \in 0 .. 5 : E(m, i, j) = E(m, j, i)

Cross(a, b) ==
    <<a[2] * b[3] - a[3] * b[2], a[3] * b[1] - a[1] * b[3], a[1] * b[2] - a[2] * b[1]>>

Dot3(a, b) == a[1] * b[1] + a[2] * b[2] + a[3] * b[3]

Scale3(k, a) == <<k * a[1], k * a[2], k * a[3]>>

\* a rotation (3x3 matrix) applied to a vector: q * v
Rotate(q, v) == Vec3(LAMBDA i : q[i + 1][1] * v[1] + q[i + 1][2] * v[2] + q[i + 1][3] * v[3])

(***************************************************************************)
(* SatState: time, position and velocity, optional covariance.             *)
(***************************************************************************)
\* StateCov::None
CovNone == [tag |-> "None"]

\* StateCov::PVCov(m)
PVCov(m) == [tag |-> "PVCov", m |-> m]

\* SatState::from_pv
from_pv(time, pos, vel) ==
    [time |-> time,
     pv |-> <<pos[1], pos[2], pos[3], vel[1], vel[2], vel[3]>>,
     cov |-> CovNone]

\* SatState::pos
pos(self) == <<self.pv[1], self.pv[2], self.pv[3]>>

\* SatState::vel
vel(self) == <<self.pv[4], self.pv[5], self.pv[6]>>

\* SatState::set_cov
set_cov(self, cov) == [self EXCEPT !.cov = cov]

\* a vector along one coordinate axis, of any length
AxisAligned(a) == Cardinality({i \in 1 .. 3 : a[i] # 0}) = 1

\* Unit::try_new of a vector along an axis
Normalize(a) == Vec3(LAMBDA i : Sign(a[i + 1]))

\* the rotation by a quarter turn about the unit axis a (Rodrigues' formula with
\* cos = 0, sin = 1): w -> a x w + a (a . w), as the matrix of its columns
QuarterTurn(a) ==
    Mat33(LAMBDA i, j :
        LET w == Vec3(LAMBDA k : IF k = j THEN 1 ELSE 0)
        IN  Cross(a, w)[i + 1] + a[i + 1] * Dot3(a, w))

\* UnitQuaternion::rotation_between(a, b) for vectors along coordinate axes: None
\* when they are opposite, the identity when they are equal, else the rotation
\* about a x b by the angle between them (a quarter turn)
rotation_between(a, b) ==
    LET na == Normalize(a)
        nb == Normalize(b)
        c == Cross(na, nb)
    IN  IF c # <<0, 0, 0>> THEN [some |-> TRUE, q |-> QuarterTurn(c)]
        ELSE IF Dot3(na, nb) < 0 THEN [some |-> FALSE, q |-> Identity3]
        ELSE [some |-> TRUE, q |-> Identity3]

z_axis == <<0, 0, 1>>

y_axis == <<0, 1, 0>>

\* the two rotation_between(..) calls of qgcrf2lvlh, before .unwrap()
qgcrf2lvlh_q1(self) == rotation_between(Scale3(-1, pos(self)), z_axis)

qgcrf2lvlh_q2(self) ==
    LET h == Cross(pos(self), vel(self))
    IN  rotation_between(Scale3(-1, Rotate(qgcrf2lvlh_q1(self).q, h)), y_axis)

\* whether both unwrap() calls of qgcrf2lvlh succeed
qgcrf2lvlh_ok(self) == qgcrf2lvlh_q1(self).some /\ qgcrf2lvlh_q2(self).some

\* SatState::qgcrf2lvlh: q2 * q1
qgcrf2lvlh(self) == Mul33(qgcrf2lvlh_q2(self).q, qgcrf2lvlh_q1(self).q)

Diag3(d) == Mat33(LAMBDA i, j : IF i = j THEN d[i + 1] ELSE 0)

\* a 6x6 matrix of zeros with the 3x3 block b copied to its upper left corner
UpperLeft(b) == Mat66(LAMBDA i, j : IF i < 3 /\ j < 3 THEN E(b, i, j) ELSE 0)

set_lvlh_pos_uncertainty_notranspose(self, sigma_lvlh) ==
    LET dcm == qgcrf2lvlh(self)
        pcov == Diag3(Vec3(LAMBDA i : sigma_lvlh[i + 1] * sigma_lvlh[i + 1]))
    IN  [self EXCEPT !.cov = PVCov(UpperLeft(Mul33(Mul33(dcm, pcov), dcm)))]

\* SatState::set_lvlh_pos_uncertainty
set_lvlh_pos_uncertainty(self, sigma_lvlh) ==
    LET dcm == qgcrf2lvlh(self)
        pcov == Diag3(Vec3(LAMBDA i : sigma_lvlh[i + 1] * sigma_lvlh[i + 1]))
    IN  [self EXCEPT !.cov = PVCov(UpperLeft(Mul33(Mul33(Transpose33(dcm), pcov), dcm)))]

\* SatState::set_gcrf_pos_uncertainty
set_gcrf_pos_uncertainty(self, sigma_cart) ==
    LET diag == <<sigma_cart[1] * sigma_cart[1], sigma_cart[2] * sigma_cart[2],
                  sigma_cart[3] * sigma_cart[3], 0, 0, 0>>
    IN  [self EXCEPT !.cov = PVCov(Mat66(LAMBDA i, j : IF i = j THEN diag[i + 1] ELSE 0))]

(***************************************************************************)
(* Propagation settings and the adaptive controller of one propagation     *)
(* call (orbitprop::propagate driving the embedded Runge-Kutta stepper).   *)
(***************************************************************************)
\* constants of the step-size controller
safety == Rat(9, 10)

min_factor == Rat(1, 5)

max_factor == RInt(5)

\* the fifth roots the model can take exactly: error norms are r^(ORDER+1)
ErrRoots == {RZero, ROne, RInt(2), RInt(10)}

ErrNorms == {RPow(r, ORDER + 1) : r \in ErrRoots}

\* error_norm^(1/(ORDER+1))
Root(error_norm) == CHOOSE r \in ErrRoots : RPow(r, ORDER + 1) = error_norm

Clamp(x, lo, hi) == RMax(lo, RMin(x, hi))

\* clamp(safety * error_norm^(-1/(ORDER+1)), min_factor, max_factor)
StepFactor(error_norm) ==
    IF error_norm = RZero THEN max_factor
    ELSE Clamp(RDiv(safety, Root(error_norm)), min_factor, max_factor)

\* step 1 of the loop: the trial step h cut so that t + h does not pass target
ClampStep(h, t, target) ==
    IF RLess(t, target) THEN RMin(h, RSub(target, t)) ELSE RMax(h, RSub(target, t))

\* the direction of travel
Direction(t, target) == IF RLess(target, t) THEN RInt(-1) ELSE ROne

\* the controller before a call
IdleCtl ==
    [pc |-> "Idle", t |-> RZero, target |-> RZero, time_start |-> RZero,
     y |-> <<>>, h |-> RZero, htrial |-> RZero, enorm |-> RZero,
     num_eval |-> 0, accepted |-> 0, rejected |-> 0, error |-> "none",
     dense |-> <<>>, settings |-> [none |-> TRUE]]

\* the loop test: while |t - target| > 0
LoopTest(t, target) == RLess(RZero, RAbs(RSub(t, target)))

\* the controller as propagate(y0, t0, target, settings) enters its loop
StartCtl(y0, t0, target, settings) ==
    [pc |-> IF LoopTest(t0, target) THEN "Stepping" ELSE "Finished",
     t |-> t0, target |-> target, time_start |-> t0,
     y |-> y0, h |-> RMul(Direction(t0, target), settings.initial_step_size),
     htrial |-> RZero, enorm |-> RZero,
     num_eval |-> 0, accepted |-> 0, rejected |-> 0, error |-> "none",
     dense |-> <<>>, settings |-> settings]

\* function evaluations of one step: every stage, less the reused one under FSAL
StepEvals(c) == IF FSAL /\ c.accepted > 0 THEN NStages - 1 ELSE NStages

\* step 3: error_norm <= 1, the step is accepted
Accept(c, h, error_norm, y_next) ==
    [c EXCEPT !.t = RAdd(c.t, h), !.y = y_next,
              !.accepted = c.accepted + 1,
              !.num_eval = c.num_eval + StepEvals(c),
              !.dense = IF c.settings.enable_dense_output
                        THEN Append(c.dense, <<c.t, RAdd(c.t, h), h>>) ELSE c.dense,
              !.htrial = h, !.enorm = error_norm,
              !.h = RMul(h, StepFactor(error_norm))]

\* step 4: error_norm > 1, the step is rejected
Reject(c, h, error_norm) ==
    [c EXCEPT !.rejected = c.rejected + 1,
              !.num_eval = c.num_eval + StepEvals(c),
              !.htrial = h, !.enorm = error_norm,
              !.h = RMul(h, StepFactor(error_norm))]

\* step 5, the fatal exits, and the loop test after a step
MaxStepsExceeded_never(c) == FALSE

MaxStepsExceeded(c) == c.accepted + c.rejected > c.settings.max_steps

StepSizeUnderflow(c) == RLess(RAbs(c.h), c.settings.min_step_size)

Conclude(c) ==
    IF MaxStepsExceeded(c) THEN [c EXCEPT !.pc = "Failed", !.error = "MaxStepsExceeded"]
    ELSE IF ~LoopTest(c.t, c.target) THEN [c EXCEPT !.pc = "Finished"]
    ELSE IF StepSizeUnderflow(c) THEN [c EXCEPT !.pc = "Failed", !.error = "StepSizeUnderflow"]
    ELSE c

\* one iteration of the loop, given what the stepper returned
Iterate(c, error_norm, y_next) ==
    LET h == ClampStep(c.h, c.t, c.target)
    IN  Conclude(IF RLeq(error_norm, ROne) THEN Accept(c, h, error_norm, y_next)
                 ELSE Reject(c, h, error_norm))

\* what propagate returns: a PropagationResult, or the failure with the statistics
PropagationResult(c) ==
    IF c.pc = "Finished"
    THEN [tag |-> "Ok", time_start |-> c.time_start, time_end |-> c.t, state_end |-> c.y,
          num_eval |-> c.num_eval, accepted_steps |-> c.accepted,
          rejected_steps |-> c.rejected,
          odesol |-> [some |-> c.settings.enable_dense_output, steps |-> c.dense]]
    ELSE [tag |-> "Err", kind |-> c.error, num_eval |-> c.num_eval,
          accepted_steps |-> c.accepted, rejected_steps |-> c.rejected]

NoResult == [tag |-> "none"]

(***************************************************************************)
(* SatState::propagate around the propagation call.                        *)
(***************************************************************************)
\* columns 1..6 of a 6x7 state: fixed_view::<6, 6>(0, 1)
PhiView(state) == Mat66(LAMBDA i, j : E(state, i, j + 1))

\* column 0 of a state: fixed_view::<6, 1>(0, 0)
PvView(state) == Vec6(LAMBDA i : E(state, i, 0))

propagate_state_zeros(self) ==
    IF self.cov.tag = "None" THEN Mat61(LAMBDA i : self.pv[i + 1])
    ELSE Mat67(LAMBDA i, j : IF j = 0 THEN self.pv[i + 1] ELSE 0)

\* the state SatState::propagate hands to orbitprop::propagate: the 6-vector pv,
\* or with a covariance the 6x7 matrix of pv and the identity
propagate_state(self) ==
    IF self.cov.tag = "None" THEN Mat61(LAMBDA i : self.pv[i + 1])
    ELSE Mat67(LAMBDA i, j : IF j = 0 THEN self.pv[i + 1] ELSE IF i = j - 1 THEN 1 ELSE 0)

evolve_cov_notranspose(phi, cov) == Mul66(Mul66(phi, cov), phi)

\* phi * cov * phi.transpose()
evolve_cov(phi, cov) == Mul66(Mul66(phi, cov), Transpose66(phi))

propagate_return_unchecked(self, time, r) ==
    IF r.tag = "Err" THEN [tag |-> "Ok", state |-> [self EXCEPT !.time = time]]
    ELSE [tag |-> "Ok",
          state |-> [time |-> time, pv |-> PvView(r.state_end),
                     cov |-> IF self.cov.tag = "None" THEN CovNone
                             ELSE PVCov(evolve_cov(PhiView(r.state_end), self.cov.m))]]

\* what SatState::propagate returns once orbitprop::propagate returned r: the error
\* (the ? operator), or the new SatState
propagate_return(self, time, r) ==
    IF r.tag = "Err" THEN [tag |-> "Err", kind |-> r.kind]
    ELSE [tag |-> "Ok",
          state |-> [time |-> time, pv |-> PvView(r.state_end),
                     cov |-> IF self.cov.tag = "None" THEN CovNone
                             ELSE PVCov(evolve_cov(PhiView(r.state_end), self.cov.m))]]

(***************************************************************************)
(* PyPropResult: the Python view of a PropagationResult<1> or <7>.         *)
(***************************************************************************)
\* PyPropResultType: R1 or R7
IsR7(r) == NCols(r.state_end) = 7

\* element k of as_slice() / as_ptr(): nalgebra stores a matrix column by column
Flat(m, k) == E(m, k % 6, k \div 6)

stats_swapped(r) ==
    [num_eval |-> r.num_eval, num_accept |-> r.rejected_steps,
     num_reject |-> r.accepted_steps]

\* PyPropResult::stats
stats(r) ==
    [num_eval |-> r.num_eval, num_accept |-> r.accepted_steps,
     num_reject |-> r.rejected_steps]

\* PyPropResult::phi: None for R1; for R7 the 36 values from flat offset 6 of
\* state_end copied in order into a 6x6 array stored row by row
phi(r) ==
    IF ~IsR7(r) THEN [tag |-> "None"]
    ELSE [tag |-> "value", val |-> Mat66(LAMBDA i, j : Flat(r.state_end, 6 + 6 * i + j))]

\* whether time lies in the span between time_start and time_end
InSpan(r, time) ==
    \/ RLeq(r.time_start, time) /\ RLeq(time, r.time_end)
    \/ RLeq(r.time_end, time) /\ RLeq(time, r.time_start)

\* the retained step (1-based) whose bracket (t_start, t_end] holds time; 0 for
\* the start time itself, whose state is the recorded start state
LocateStep(r, time) ==
    IF time = r.time_start THEN 0
    ELSE CHOOSE k \in 1 .. Len(r.odesol.steps) :
            LET st == r.odesol.steps[k]
            IN  \/ RLess(st[1], time) /\ RLeq(time, st[2])
                \/ RLess(time, st[1]) /\ RLeq(st[2], time)

\* PropagationResult::interp
result_interp(r, time) ==
    IF ~r.odesol.some THEN [tag |-> "Err", kind |-> "NoDenseOutput"]
    ELSE IF ~InSpan(r, time) THEN [tag |-> "Err", kind |-> "OutOfRangeInterpolation"]
    ELSE [tag |-> "Ok", step |-> LocateStep(r, time), at |-> time]

interp_noerror(r, time, output_phi) ==
    LET e == result_interp(r, time)
    IN  IF e.tag = "Err" THEN [tag |-> "None"]
        ELSE [tag |-> "value", val |-> [step |-> e.step, at |-> e.at,
                                       phi |-> IsR7(r) /\ output_phi]]

\* PyPropResult::interp: the state (with the transition matrix on request), or
\* the error as a ValueError
interp(r, time, output_phi) ==
    LET e == result_interp(r, time)
    IN  IF e.tag = "Err" THEN [tag |-> "ValueError", msg |-> e.kind]
        ELSE [tag |-> "value", val |-> [step |-> e.step, at |-> e.at,
                                       phi |-> IsR7(r) /\ output_phi]]

(***************************************************************************)
(* The stepper: one embedded Runge-Kutta step of a scalar ODE y' = f(t, y) *)
(* with the tableau, stage by stage.                                        *)
(***************************************************************************)
\* the right-hand sides stepped: f(t, y) = t^k, and f(t, y) = y
MaxDegree == 4

Problems == {[kind |-> "tpow", k |-> k] : k \in 0 .. MaxDegree} \cup {[kind |-> "lin", k |-> 0]}

Rhs(prob, t, y) == IF prob.kind = "tpow" THEN RPow(t, prob.k) ELSE y

StepSizes == {ROne, Rat(1, 2), RInt(-1)}

StartTimes == {RZero, ROne}

StartValues == {RZero, RInt(2)}

\* absolute and relative tolerance of the error norm
Tolerances == {<<Rat(1, 100), RZero>>, <<Rat(1, 10), Rat(1, 10)>>}

StepperOff ==
    [pc |-> "off", prob |-> [kind |-> "none", k |-> 0], t |-> RZero, y |-> RZero,
     h |-> RZero, tol |-> <<RZero, RZero>>, stages |-> <<>>,
     y_next |-> RZero, err |-> RZero, error_norm |-> RZero]

\* sum_{j < i} w[j] * stages[j], for the stages computed so far
StageSum(w, stages) ==
    RSum([j \in 1 .. Len(stages) |-> RMul(w[j], stages[j])])

\* stage_time = t + C[i] * h
StageTime(st, i) == RAdd(st.t, RMul(At(C, i), st.h))

\* stage_input = y + h * sum_{j < i} A[i][j] * stages[j]
StageInput(st, i) == RAdd(st.y, RMul(st.h, StageSum(A[i + 1], st.stages)))

\* stages[i] = f(stage_time, stage_input), for the next stage i
NextStage(st) ==
    LET i == Len(st.stages)
    IN  Rhs(st.prob, StageTime(st, i), StageInput(st, i))

\* the scaled norm of a one-component error vector:
\* sqrt(mean((err / (atol + rtol * max(|y|, |y_next|)))^2))
ErrorNorm(err, y, y_next, tol) ==
    RDiv(RAbs(err), RAdd(tol[1], RMul(tol[2], RMax(RAbs(y), RAbs(y_next)))))

\* the step's results once every stage is there
Finish(st) ==
    LET yn == RAdd(st.y, RMul(st.h, StageSum(B, st.stages)))
        er == RMul(st.h, StageSum(BERR, st.stages))
    IN  [st EXCEPT !.pc = "done", !.y_next = yn, !.err = er,
                   !.error_norm = ErrorNorm(er, st.y, yn, st.tol)]

(***************************************************************************)
(* The state machine: a caller holding one SatState, one propagation call  *)
(* at a time, and the result of the last call seen through PyPropResult.   *)
(***************************************************************************)
VARIABLES
    sat,      \* the caller's SatState
    ctl,      \* the adaptive controller of the propagation call in progress
    call,     \* the arguments of the SatState::propagate call in progress
    res,      \* what the last orbitprop::propagate call returned
    ret,      \* what the last SatState::propagate call returned
    out,      \* what the last PyPropResult call returned
    ncalls,   \* number of propagation calls made
    stp,      \* the stepper at work on one step of a scalar test problem
    asym_cov  \* whether sat's covariance is, or was propagated from, an
              \* asymmetric matrix given to set_cov

vars == <<sat, ctl, call, res, ret, out, ncalls, stp, asym_cov>>

\* bounds of the model
MaxTime == 2

MaxCalls == 2

MaxStepsBound == 2

\* no call of the model takes this many steps: the controller stops at max_steps + 1
CounterCap == MaxStepsBound + 2

Times == {RInt(k) : k \in 0 .. MaxTime}

\* times asked of interp: inside the span, at its ends and outside on either side
QueryTimes == Times \cup {RInt(-1), Rat(1, 2), RInt(MaxTime + 1)}

\* positions and velocities given to from_pv; the second has no lvlh frame the
\* code can compute (rotation_between finds -pos opposite to the z axis)
PVInputs == {<<<<2, 0, 0>>, <<0, 1, 0>>>>, <<<<0, 0, 2>>, <<1, 0, 0>>>>}

Sigmas == {<<1, 2, 3>>}

SymCov == Mat66(LAMBDA i, j : IF i = j THEN 2 ELSE IF i + j = 1 THEN 1 ELSE 0)

AsymCov == Mat66(LAMBDA i, j : IF i = j THEN 2 ELSE IF i = 0 /\ j = 1 THEN 1 ELSE 0)

CovInputs == {CovNone, PVCov(SymCov), PVCov(AsymCov)}

\* the settings a caller passes; None stands for PropSettings::default()
DefaultSettings ==
    [initial_step_size |-> ROne, min_step_size |-> Rat(1, 4),
     max_steps |-> MaxStepsBound, enable_dense_output |-> FALSE]

SettingsInputs ==
    {[initial_step_size |-> ROne, min_step_size |-> Rat(1, 4),
      max_steps |-> ms, enable_dense_output |-> TRUE] : ms \in 1 .. MaxStepsBound}
    \cup {[initial_step_size |-> ROne, min_step_size |-> RZero,
            max_steps |-> MaxStepsBound, enable_dense_output |-> TRUE]}

\* what the force model makes of a step: the position and velocity turn a quarter
\* of an orbit about z, and the transition matrix is multiplied by the step's own
QuarterOrbit ==
    Mat66(LAMBDA i, j :
        IF (i = 0 /\ j = 1) \/ (i = 3 /\ j = 4) THEN -1
        ELSE IF (i = 1 /\ j = 0) \/ (i = 4 /\ j = 3) \/ (i = 2 /\ j = 2) \/ (i = 5 /\ j = 5)
             THEN 1 ELSE 0)

\* free drift: position += velocity
Drift == Mat66(LAMBDA i, j : IF i = j \/ j = i + 3 THEN 1 ELSE 0)

PhiMaps == {QuarterOrbit, Drift}

\* the advanced states the stepper may return from state y
StepOutcomes(y) ==
    IF NCols(y) = 1
    THEN {Mat61(LAMBDA i : RowCol(QuarterOrbit, y, i, 0))}
    ELSE {Mat67(LAMBDA i, j : IF j = 0 THEN RowCol(QuarterOrbit, y, i, 0)
                              ELSE RowCol(m, y, i, j)) : m \in PhiMaps}

NoCall == [none |-> TRUE]

NoRet == [tag |-> "none"]

NoOut == [tag |-> "none", op |-> "none"]

Init ==
    /\ \E pv \in PVInputs : sat = from_pv(RZero, pv[1], pv[2])
    /\ ctl = IdleCtl
    /\ call = NoCall
    /\ res = NoResult
    /\ ret = NoRet
    /\ out = NoOut
    /\ ncalls = 0
    /\ stp = StepperOff
    /\ asym_cov = FALSE

Idle == ctl.pc = "Idle"

\* SatState::from_pv
FromPv ==
    /\ Idle
    /\ \E pv \in PVInputs : sat' = from_pv(RZero, pv[1], pv[2])
    /\ asym_cov' = FALSE
    /\ ret' = NoRet /\ out' = NoOut
    /\ UNCHANGED <<ctl, call, res, ncalls, stp>>

\* SatState::set_cov
SetCov ==
    /\ Idle
    /\ \E cov \in CovInputs :
          /\ sat' = set_cov(sat, cov)
          /\ asym_cov' = (cov.tag = "PVCov" /\ ~IsSymmetric(cov.m))
    /\ ret' = NoRet /\ out' = NoOut
    /\ UNCHANGED <<ctl, call, res, ncalls, stp>>

\* SatState::set_gcrf_pos_uncertainty
SetGcrfPosUncertainty ==
    /\ Idle
    /\ \E sigma \in Sigmas : sat' = set_gcrf_pos_uncertainty(sat, sigma)
    /\ asym_cov' = FALSE
    /\ ret' = NoRet /\ out' = NoOut
    /\ UNCHANGED <<ctl, call, res, ncalls, stp>>

\* SatState::set_lvlh_pos_uncertainty; an unwrap() of qgcrf2lvlh on None panics
\* and no state results
SetLvlhPosUncertainty ==
    /\ Idle
    /\ qgcrf2lvlh_ok(sat)
    /\ \E sigma \in Sigmas : sat' = set_lvlh_pos_uncertainty(sat, sigma)
    /\ asym_cov' = FALSE
    /\ ret' = NoRet /\ out' = NoOut
    /\ UNCHANGED <<ctl, call, res, ncalls, stp>>

\* SatState::propagate is called: orbitprop::propagate starts on the state
Propagate ==
    /\ Idle
    /\ ncalls < MaxCalls
    /\ \E time \in Times, settings \in SettingsInputs \cup {DefaultSettings} :
          /\ ctl' = StartCtl(propagate_state(sat), sat.time, time, settings)
          /\ call' = [time |-> time]
    /\ ncalls' = ncalls + 1
    /\ res' = NoResult /\ ret' = NoRet /\ out' = NoOut
    /\ UNCHANGED <<sat, stp, asym_cov>>

\* one iteration of the controller's loop
Step ==
    /\ ctl.pc = "Stepping"
    /\ ctl.accepted + ctl.rejected < CounterCap
    /\ \E error_norm \in ErrNorms, y_next \in StepOutcomes(ctl.y) :
          ctl' = Iterate(ctl, error_norm, y_next)
    /\ UNCHANGED <<sat, call, res, ret, out, ncalls, stp, asym_cov>>

\* orbitprop::propagate returns, and SatState::propagate with it; the caller
\* keeps the new SatState in place of the old one
PropagateReturn ==
    /\ ctl.pc \in {"Finished", "Failed"}
    /\ res' = PropagationResult(ctl)
    /\ ret' = propagate_return(sat, call.time, res')
    /\ sat' = IF ret'.tag = "Ok" THEN ret'.state ELSE sat
    /\ ctl' = IdleCtl
    /\ call' = NoCall
    /\ out' = NoOut
    /\ UNCHANGED <<ncalls, stp, asym_cov>>

HasResult == Idle /\ res.tag = "Ok"

\* PyPropResult::stats
PyStats ==
    /\ HasResult
    /\ out' = [tag |-> "value", op |-> "stats", val |-> stats(res)]
    /\ UNCHANGED <<sat, ctl, call, res, ret, ncalls, stp, asym_cov>>

\* PyPropResult::phi
PyPhi ==
    /\ HasResult
    /\ out' = [op |-> "phi"] @@ phi(res)
    /\ UNCHANGED <<sat, ctl, call, res, ret, ncalls, stp, asym_cov>>

\* PyPropResult::interp
PyInterp ==
    /\ HasResult
    /\ \E time \in QueryTimes, output_phi \in BOOLEAN :
          out' = [op |-> "interp", time |-> time, retry |-> out.tag = "ValueError"]
                    @@ interp(res, time, output_phi)
    /\ UNCHANGED <<sat, ctl, call, res, ret, ncalls, stp, asym_cov>>

\* step(f, t, y, h, tableau) starts
StepperStart ==
    /\ stp.pc \in {"off", "done"}
    /\ \E prob \in Problems, t \in StartTimes, y \in StartValues, h \in StepSizes,
          tol \in Tolerances :
          stp' = [StepperOff EXCEPT !.pc = "stage", !.prob = prob, !.t = t, !.y = y,
                                    !.h = h, !.tol = tol]
    /\ UNCHANGED <<sat, ctl, call, res, ret, out, ncalls, asym_cov>>

\* the next stage derivative is evaluated
StepperStage ==
    /\ stp.pc = "stage"
    /\ Len(stp.stages) < NStages
    /\ stp' = [stp EXCEPT !.stages = Append(stp.stages, NextStage(stp))]
    /\ UNCHANGED <<sat, ctl, call, res, ret, out, ncalls, asym_cov>>

\* the advanced state and the error estimate are formed
StepperFinish ==
    /\ stp.pc = "stage"
    /\ Len(stp.stages) = NStages
    /\ stp' = Finish(stp)
    /\ UNCHANGED <<sat, ctl, call, res, ret, out, ncalls, asym_cov>>

StepperNext ==
    \/ StepperStart
    \/ StepperStage
    \/ StepperFinish

\* the stepper alone, on the test problems
StepperSpec == Init /\ [][StepperNext]_vars

Next ==
    \/ FromPv
    \/ SetCov
    \/ SetGcrfPosUncertainty
    \/ SetLvlhPosUncertainty
    \/ Propagate
    \/ Step
    \/ PropagateReturn
    \/ PyStats
    \/ PyPhi
    \/ PyInterp

Spec == Init /\ [][Next]_vars

\* the propagation calls alone, on states with and without a covariance
CallNext ==
    \/ SetGcrfPosUncertainty
    \/ Propagate
    \/ Step
    \/ PropagateReturn

\* a propagation call runs on: the loop takes its next iteration
FairSpec == Init /\ [][CallNext]_vars /\ WF_vars(Step)

(***************************************************************************)
(* The claims.                                                             *)
(***************************************************************************)
\* a step of the model in which the propagation call in progress returns
Returns == ctl.pc \in {"Finished", "Failed"} /\ ctl'.pc = "Idle"

\* a step of the model that is one iteration of the controller's loop
Iterates == ctl.pc = "Stepping" /\ ctl'.num_eval > ctl.num_eval

\* C1: a propagation call ends Finished with its time equal to the target, or
\* Failed by a step-size underflow or by exceeding max_steps; SatState::propagate
\* returns Err whenever the call failed, leaving the caller's state as it was, and
\* builds a new SatState, stamped with the target time, only when it succeeded.
C1_FinishedAtTargetOrFailed ==
    [][/\ ctl'.pc = "Finished" => ctl'.t = ctl'.target
       /\ ctl'.pc = "Failed" => ctl'.error \in {"StepSizeUnderflow", "MaxStepsExceeded"}
       /\ Returns /\ ctl.pc = "Finished" =>
            /\ res'.tag = "Ok" /\ res'.time_end = call.time
            /\ ret'.tag = "Ok" /\ sat' = ret'.state /\ sat'.time = call.time
       /\ Returns /\ ctl.pc = "Failed" =>
            /\ res'.tag = "Err" /\ res'.kind = ctl.error
            /\ ret'.tag = "Err" /\ sat' = sat]_vars

\* a call failed after accepting a step: a trajectory short of the target, reported
\* as an error
C1_Witness ==
    /\ ret.tag = "Err" /\ res.tag = "Err"
    /\ res.accepted_steps > 0

\* C2: propagate(state, t, t, settings) takes no loop iteration and returns the
\* state unchanged with 0 accepted and 0 rejected steps; a covariance P comes
\* back as P.
C2_ZeroSpan ==
    [][/\ ctl.pc = "Idle" /\ ctl'.pc # "Idle" /\ call'.time = sat.time =>
            /\ ctl'.pc = "Finished"
            /\ ctl'.accepted = 0 /\ ctl'.rejected = 0 /\ ctl'.num_eval = 0
       /\ Returns /\ call.time = sat.time =>
            /\ ctl.pc = "Finished"
            /\ res'.tag = "Ok"
            /\ res'.accepted_steps = 0 /\ res'.rejected_steps = 0
            /\ PvView(res'.state_end) = sat.pv
            /\ ret'.tag = "Ok" /\ ret'.state = sat /\ sat' = sat]_vars

\* a zero-span call on a state with a covariance other than zero has returned
C2_Witness ==
    /\ ret.tag = "Ok" /\ res.tag = "Ok"
    /\ res.time_start = res.time_end
    /\ sat.cov.tag = "PVCov" /\ sat.cov.m # Zeros6

\* C3: in every step with error_norm > 1.0 the time, the state and the count of
\* accepted steps stay as they are, the count of rejected steps (as stats reports
\* them) grows by exactly one, and the next trial step is the rejected one times
\* clamp(safety * error_norm^(-1/(ORDER+1)), min_factor, max_factor), a factor
\* below one, so strictly smaller in magnitude.
C3_Rejection ==
    [][Iterates /\ RLess(ROne, ctl'.enorm) =>
            /\ ctl'.t = ctl.t /\ ctl'.y = ctl.y
            /\ ctl'.htrial = ClampStep(ctl.h, ctl.t, ctl.target)
            /\ stats(PropagationResult(ctl')).num_accept
                  = stats(PropagationResult(ctl)).num_accept
            /\ stats(PropagationResult(ctl')).num_reject
                  = stats(PropagationResult(ctl)).num_reject + 1
            /\ ctl'.accepted = ctl.accepted /\ ctl'.rejected = ctl.rejected + 1
            /\ RLess(RAbs(ctl'.h), RAbs(ctl'.htrial))
            /\ LET root == CHOOSE r \in ErrRoots : RPow(r, ORDER + 1) = ctl'.enorm
                   factor == RMax(min_factor, RMin(RDiv(safety, root), max_factor))
               IN  /\ RLess(factor, ROne)
                   /\ ctl'.h = RMul(ctl'.htrial, factor)]_vars

\* a step was rejected and the loop goes on with the smaller step
C3_Witness ==
    /\ ctl.pc = "Stepping"
    /\ ctl.rejected > 0 /\ RLess(ROne, ctl.enorm)
    /\ RLess(RAbs(ctl.h), RAbs(ctl.htrial))

\* whether the covariance of a SatState, when present, is a symmetric 6x6 matrix
CovSymmetric(s) ==
    s.cov.tag = "PVCov" =>
        /\ Len(s.cov.m) = 6 /\ \A i \in 1 .. 6 : Len(s.cov.m[i]) = 6
        /\ IsSymmetric(s.cov.m)

\* C4 as stated: in every SatState reachable by from_pv, set_cov,
\* set_gcrf_pos_uncertainty, set_lvlh_pos_uncertainty and propagate the covariance,
\* when present, is a symmetric 6x6 matrix.
C4_Original == CovSymmetric(sat)

\* C4, amended: the covariance, when present, is a symmetric 6x6 matrix unless it
\* is, or was propagated from, an asymmetric matrix given to set_cov.
C4_SymmetricUnlessSetAsymmetric == ~asym_cov => CovSymmetric(sat)

\* a covariance set in the lvlh frame and then propagated over accepted steps
C4_Witness ==
    /\ ~asym_cov
    /\ sat.cov.tag = "PVCov"
    /\ \E i \in 0 .. 5 : \E j \in 0 .. 5 : i # j /\ E(sat.cov.m, i, j) # 0
    /\ ret.tag = "Ok" /\ res.tag = "Ok" /\ res.accepted_steps > 0

\* element (i, j) of Phi * P * Phi^T: sum over k, l of Phi[i][k] * P[k][l] * Phi[j][l]
TripleProduct(phi_final, p, i, j) ==
    SumTo([n \in 1 .. 36 |->
              LET k == (n - 1) \div 6
                  l == (n - 1) % 6
              IN  E(phi_final, i, k) * E(p, k, l) * E(phi_final, j, l)], 36)

\* C5: when SatState::propagate is called on a state with a symmetric covariance
\* P, the covariance it returns is Phi * P * Phi^T for Phi the columns 1..6 of the
\* final state, and equals its own transpose.
C5_CovarianceEvolution ==
    [][Returns /\ ctl.pc = "Finished" /\ sat.cov.tag = "PVCov" /\ IsSymmetric(sat.cov.m) =>
            /\ sat'.cov.tag = "PVCov"
            /\ \A i \in 0 .. 5 : \A j \in 0 .. 5 :
                  E(sat'.cov.m, i, j)
                     = TripleProduct(Mat66(LAMBDA a, b : E(ctl.y, a, b + 1)), sat.cov.m, i, j)
            /\ sat'.cov.m = Transpose66(sat'.cov.m)]_vars

\* a symmetric covariance was propagated with a transition matrix that is neither
\* the identity nor symmetric
C5_Witness ==
    /\ ret.tag = "Ok" /\ res.tag = "Ok" /\ ~asym_cov
    /\ sat.cov.tag = "PVCov" /\ sat.cov.m # Zeros6
    /\ IsR7(res) /\ ~IsSymmetric(PhiView(res.state_end))

\* C6: on a result retained with dense output, interp(time) returns a state for
\* every time within the span of the result and fails (a ValueError in Python)
\* with the out-of-range error for every time outside it; the call leaves the
\* result as it was, so an interp that follows a failed one succeeds for a time
\* within the span.
C6_InterpRange ==
    /\ [](out.op = "interp" /\ res.tag = "Ok" /\ res.odesol.some =>
            /\ InSpan(res, out.time) => out.tag = "value" /\ out.val.at = out.time
            /\ ~InSpan(res, out.time) =>
                  out.tag = "ValueError" /\ out.msg = "OutOfRangeInterpolation")
    /\ [][out'.op = "interp" => res' = res]_vars

\* an interp within the span succeeded right after one that failed
C6_Witness ==
    /\ out.op = "interp" /\ out.retry /\ out.tag = "value"
    /\ res.tag = "Ok" /\ res.odesol.some /\ res.accepted_steps > 0

\* C7: every propagation call terminates: from Stepping the controller reaches
\* Finished or Failed, whatever error norms the stepper returns.
C7_Terminates == (ctl.pc = "Stepping") ~> (ctl.pc \in {"Finished", "Failed"})

\* a call in which every step was rejected, and no step size underflows, ended
\* Failed on the step count
C7_Witness ==
    /\ ctl.pc = "Failed" /\ ctl.error = "MaxStepsExceeded"
    /\ ctl.settings.min_step_size = RZero
    /\ ctl.accepted = 0 /\ ctl.rejected = ctl.settings.max_steps + 1

\* the integral of t^k over [t, t + h]
Integral(k, t, h) ==
    RDiv(RSub(RPow(RAdd(t, h), k + 1), RPow(t, k + 1)), RInt(k + 1))

C9_ExplicitConsistent ==
    /\ StrictlyLower
    /\ \A i \in Stages : RowSum(i) = At(C, i)
    /\ At(C, 0) = RZero
    /\ RSum(B) = ROne
    /\ RSum(BERR) = RZero
    /\ stp.pc = "done" /\ (\A i \in 1 .. NStages : stp.stages[i] = stp.stages[1]) =>
          /\ stp.err = RZero /\ stp.error_norm = RZero
          /\ stp.y_next = RAdd(stp.y, RMul(stp.h, stp.stages[1]))

\* a step of a problem with a constant derivative other than zero was taken
C9_Witness ==
    /\ stp.pc = "done"
    /\ \A i \in 1 .. NStages : stp.stages[i] = stp.stages[1]
    /\ stp.stages[1] # RZero /\ stp.err = RZero

\* C10: for a 7-column result the phi getter returns the state-transition matrix
\* in the orientation SatState::propagate uses: element (i, j) of the array is
\* element (i, j + 1) of the final state; for a 1-column result it returns None.
C10_PhiOrientation ==
    out.op = "phi" /\ res.tag = "Ok" =>
        IF IsR7(res)
        THEN /\ out.tag = "value"
             /\ \A i \in 0 .. 5 : \A j \in 0 .. 5 :
                   E(out.val, i, j) = E(res.state_end, i, j + 1)
        ELSE out.tag = "None"

=============================================================================
